---------------------------- MODULE Spec2Model ----------------------------
(***************************************************************************)
(* Filing monitoring pipeline of polititian-stock-scrapper.                *)
(*                                                                         *)
(* The repository holds two generations of the pipeline.  The current one  *)
(* (services/checkLastTransaction.js, components/pdfProcessing.js,         *)
(* components/dataValidation.js, utils/transaction.js, the index.js with   *)
(* startFilingMonitoring) is the one whose modules import each other       *)
(* consistently; it is modelled here.                                      *)
(*                                                                         *)
(*   Spec           the monitor loop while no client is connected          *)
(*   ServerSpec     the monitor loop with clients of GET /api/sse, for the *)
(*                  cycles in which the extractor answers at its first call*)
(*   ValidatorSpec  validateGeneratedOpenAiData on bounded arguments       *)
(*   NormalizeSpec  normalizeName on bounded token sequences               *)
(*   RetrySpec      retryProcessPDFData, which nothing calls any more      *)
(*   QuerySpec      the handler of GET /api/latest                         *)
(*   ConvertSpec    convertPDFToJSON from the assistant's message on       *)
(*   LiveSpec       the monitor loop under the scheduling of the event     *)
(*                  loop, for the filings extracted at the first or the    *)
(*                  second call                                            *)
(*                                                                         *)
(* Strings are sequences of one-character strings, so that the regular     *)
(* expressions and the substring tests of the validator are computed, not  *)
(* assumed.                                                                *)
(***************************************************************************)
EXTENDS Integers, Sequences, FiniteSets, TLC

\* null held by a variable of strings (oldPDFUrl, path)
Null == "null"
\* undefined and null held by a variable of objects
Undefined == [undefined |-> TRUE]
NullData == [null |-> TRUE]

(***************************************************************************)
(* Strings                                                                 *)
(***************************************************************************)

\* The characters in UTF-16 code unit order (the order of Array.prototype.sort()).
CharOrder ==
  << " ", "(", ")", ",", ".",
     "0", "1", "2", "3", "4", "5", "6", "7", "8", "9",
     "A", "B", "C", "D", "E", "F", "G", "H", "I", "J", "K", "L", "M",
     "N", "O", "P", "Q", "R", "S", "T", "U", "V", "W", "X", "Y", "Z",
     "a", "b", "c", "d", "e", "f", "g", "h", "i", "j", "k", "l", "m",
     "n", "o", "p", "q", "r", "s", "t", "u", "v", "w", "x", "y", "z" >>

Code(c) == CHOOSE i \in DOMAIN CharOrder : CharOrder[i] = c

UpperFirst == Code("A")
UpperLast == Code("Z")
CaseOffset == Code("a") - Code("A")

\* String.prototype.toLowerCase, one character
LowerChar(c) ==
  IF Code(c) >= UpperFirst /\ Code(c) <= UpperLast
  THEN CharOrder[Code(c) + CaseOffset]
  ELSE c

\* String.prototype.toLowerCase
toLowerCase(s) == [i \in 1..Len(s) |-> LowerChar(s[i])]

\* String.prototype.includes
includes(s, t) ==
  \E i \in 0..(Len(s) - Len(t)) : SubSeq(s, i + 1, i + Len(t)) = t

\* s.startsWith(t) at offset i (0-based)
matchesAt(s, i, t) ==
  /\ i + Len(t) <= Len(s)
  /\ SubSeq(s, i + 1, i + Len(t)) = t

\* the regex class \s (among the characters modelled)
isSpace(c) == c = " "

\* length of the maximal run of \s starting at offset i (0-based) of s
RECURSIVE spaceRun(_, _)
spaceRun(s, i) ==
  IF i < Len(s) /\ isSpace(s[i + 1]) THEN 1 + spaceRun(s, i + 1) ELSE 0

\* the suffix of s from offset i (0-based)
from(s, i) == SubSeq(s, i + 1, Len(s))

\* length of the match of  word\.?\s+  at offset i of s, or 0 when it does not match
titleMatchLen(s, i, word) ==
  IF ~matchesAt(s, i, word) THEN 0
  ELSE LET j == i + Len(word)
           withDot == IF j < Len(s) /\ s[j + 1] = "." THEN spaceRun(s, j + 1) ELSE 0
           noDot == spaceRun(s, j)
       IN  IF withDot > 0 THEN Len(word) + 1 + withDot
           ELSE IF noDot > 0 THEN Len(word) + noDot
           ELSE 0

\* s.replace(/^word\.?\s+/i, '') on a lower-cased s
stripLeadingTitle(s, word) ==
  LET n == titleMatchLen(s, 0, word)
  IN  IF n > 0 THEN from(s, n) ELSE s

\* length of the match of  \s+word\.?\s+  at offset i of s, or 0
innerMatchLen(s, i, word) ==
  LET k == spaceRun(s, i)
      n == IF k > 0 THEN titleMatchLen(s, i + k, word) ELSE 0
  IN  IF n > 0 THEN k + n ELSE 0

\* s.replace(/\s+word\.?\s+/i, ' '): the leftmost match only (no g flag)
stripInnerTitle(s, word) ==
  LET starts == {i \in 0..Len(s) : innerMatchLen(s, i, word) > 0}
  IN  IF starts = {} THEN s
      ELSE LET i == CHOOSE x \in starts : \A y \in starts : x <= y
               n == innerMatchLen(s, i, word)
           IN  SubSeq(s, 1, i) \o << " " >> \o from(s, i + n)

\* s.replace(/[.,]/g, '')
removePunctuation(s) == SelectSeq(s, LAMBDA c : c \notin {".", ","})

\* s.split(/\s+/).filter(part => part.length > 0)
RECURSIVE splitParts(_)
splitParts(s) ==
  IF s = << >> THEN << >>
  ELSE IF isSpace(s[1]) THEN splitParts(Tail(s))
  ELSE LET ends == {i \in 1..Len(s) : isSpace(s[i])}
           n == IF ends = {} THEN Len(s)
                ELSE (CHOOSE x \in ends : \A y \in ends : x <= y) - 1
       IN  << SubSeq(s, 1, n) >> \o splitParts(from(s, n))

Ordinals == { << "s", "t" >>, << "n", "d" >>, << "r", "d" >>, << "t", "h" >> }
NonZeroDigits == {"1", "2", "3", "4", "5", "6", "7", "8", "9"}

\* part.match(/^(jr|sr|[ivx]+|[1-9](?:st|nd|rd|th))$/)
isSuffix(part) ==
  \/ part = << "j", "r" >>
  \/ part = << "s", "r" >>
  \/ Len(part) > 0 /\ \A i \in 1..Len(part) : part[i] \in {"i", "v", "x"}
  \/ Len(part) = 3 /\ part[1] \in NonZeroDigits /\ SubSeq(part, 2, 3) \in Ordinals

\* a < b for the default comparator of Array.prototype.sort (code unit order)
RECURSIVE lessThan(_, _)
lessThan(a, b) ==
  IF b = << >> THEN FALSE
  ELSE IF a = << >> THEN TRUE
  ELSE IF a[1] # b[1] THEN Code(a[1]) < Code(b[1])
  ELSE lessThan(Tail(a), Tail(b))

\* insertion of part p in the sorted list of parts
RECURSIVE insertSorted(_, _)
insertSorted(p, parts) ==
  IF parts = << >> THEN << p >>
  ELSE IF lessThan(p, parts[1]) THEN << p >> \o parts
  ELSE << parts[1] >> \o insertSorted(p, Tail(parts))

\* parts.sort()
RECURSIVE sort(_)
sort(parts) ==
  IF parts = << >> THEN << >>
  ELSE insertSorted(parts[1], sort(Tail(parts)))

\* parts.join(' ')
RECURSIVE join(_)
join(parts) ==
  IF parts = << >> THEN << >>
  ELSE IF Len(parts) = 1 THEN parts[1]
  ELSE parts[1] \o << " " >> \o join(Tail(parts))

Hon == << "h", "o", "n" >>
Dr == << "d", "r" >>
Mrs == << "m", "r", "s" >>
Mr == << "m", "r" >>

normalizeName(name) ==
  LET lower == toLowerCase(name)
      noHon == stripLeadingTitle(lower, Hon)
      noDr == stripLeadingTitle(noHon, Dr)
      noMrs == stripInnerTitle(noDr, Mrs)
      noMr == stripInnerTitle(noMrs, Mr)
      parts == splitParts(removePunctuation(noMr))
  IN  join(sort(SelectSeq(parts, LAMBDA p : ~isSuffix(p))))


(***************************************************************************)
(* Validator (components/dataValidation.js)                                *)
(***************************************************************************)

\* hasTransactions without the test of the length: an empty array is truthy
hasTransactionsArrayOnly(data) == "Transactions" \in DOMAIN data

\* data && data.Transactions && Array.isArray(data.Transactions) && length > 0
hasTransactions(data) ==
  /\ "Transactions" \in DOMAIN data
  /\ Len(data.Transactions) > 0

getTransactionFirstNameAndOffice(data) ==
  [name |-> data.Filing_Information.Name,
   office |-> data.Filing_Information.State_District]

\* missingWebsiteData testing the name only
missingWebsiteDataNameOnly(nameInWebsite, officeInWebsite) ==
  nameInWebsite = << >>

\* !nameInWebsite || !officeInWebsite: the empty string is falsy
missingWebsiteData(nameInWebsite, officeInWebsite) ==
  nameInWebsite = << >> \/ officeInWebsite = << >>

nameMatch(data, nameInWebsite) ==
  normalizeName(nameInWebsite)
    = normalizeName(getTransactionFirstNameAndOffice(data).name)

officeMatch(data, officeInWebsite) ==
  includes(toLowerCase(getTransactionFirstNameAndOffice(data).office),
           toLowerCase(officeInWebsite))

\* similarEnough testing one direction only
similarEnoughOneWay(data, nameInWebsite, officeInWebsite) ==
  /\ officeMatch(data, officeInWebsite)
  /\ includes(normalizeName(nameInWebsite),
              normalizeName(getTransactionFirstNameAndOffice(data).name))

\* officeMatch && website.includes(transaction) || transaction.includes(website)
\* (&& binds tighter than ||)
similarEnough(data, nameInWebsite, officeInWebsite) ==
  LET w == normalizeName(nameInWebsite)
      t == normalizeName(getTransactionFirstNameAndOffice(data).name)
  IN  \/ officeMatch(data, officeInWebsite) /\ includes(w, t)
      \/ includes(t, w)

NoTransactionsError == "No transactions found in processed data"
MismatchError == "Data mismatch between website and filing"
Valid == "valid"

\* The outcome of validateGeneratedOpenAiData: Valid when it returns, the
\* message of the Error it throws otherwise.
validateGeneratedOpenAiData(data, nameInWebsite, officeInWebsite) ==
  IF missingWebsiteData(nameInWebsite, officeInWebsite)
  THEN IF hasTransactions(data) THEN Valid ELSE NoTransactionsError
  ELSE IF /\ (~nameMatch(data, nameInWebsite) \/ ~officeMatch(data, officeInWebsite))
          /\ ~similarEnough(data, nameInWebsite, officeInWebsite)
       THEN MismatchError
       ELSE IF hasTransactions(data) THEN Valid ELSE NoTransactionsError

(***************************************************************************)
(* The filings the disclosure site can list and the records the extractor  *)
(* can return                                                              *)
(***************************************************************************)

HonAlNg == << "H", "o", "n", ".", " ", "A", "l", " ", "N", "g" >>
NgAl == << "N", "g", ",", " ", "A", "l" >>
Al == << "A", "l" >>
BoLi == << "B", "o", " ", "L", "i" >>
CA05 == << "C", "A", "0", "5" >>
DistrictCA05 == << "D", " ", "(", "c", "a", "0", "5", ")" >>
NY01 == << "N", "Y", "0", "1" >>

Filing(id, name, office, url) ==
  [id |-> id, name |-> name, office |-> office, pdfUrl |-> url]

\* rows of the site's result table that getTransactions keeps
Filings ==
  { Filing(<< "8" >>, HonAlNg, CA05, "u1"),
    Filing(<< "9" >>, HonAlNg, CA05, "u2"),
    Filing(<< "1", "0" >>, BoLi, << >>, "u3") }

Urls == {f.pdfUrl : f \in Filings}

Transaction ==
  [ID_Owner |-> "Self", Asset |-> "Company Stock", Transaction_Type |-> "Purchase",
   Date |-> "2023-01-01", Amount |-> "$1,001 - $15,000"]

\* a transaction the extractor returned with an empty Amount
TransactionWithoutAmount == [Transaction EXCEPT !.Amount = ""]

Record(name, office, transactions) ==
  [Filing_Information |-> [Name |-> name, Status |-> "Filed", State_District |-> office],
   Transactions |-> transactions]

\* what convertPDFToJSON can return for a document
Docs ==
  { Record(NgAl, DistrictCA05, << Transaction >>),
    Record(Al, CA05, << Transaction >>),
    Record(BoLi, NY01, << Transaction >>),
    Record(NgAl, CA05, << >>),
    Record(NgAl, DistrictCA05, << TransactionWithoutAmount >>) }


(***************************************************************************)
(* Retry schedule (utils/config.js), in minutes                            *)
(***************************************************************************)

retryDelays == << 0, 3, 7, 30, 8 * 60 >>

(***************************************************************************)
(* Source Fetcher (utils/transaction.js)                                   *)
(***************************************************************************)

MaxRows == 2

\* the value of a decimal digit
digit(c) == Code(c) - Code("0")

\* parseInt(id, 10), id being the \d+ group of the href (never NaN)
RECURSIVE parseInt(_)
parseInt(id) ==
  IF id = << >> THEN 0
  ELSE 10 * parseInt(SubSeq(id, 1, Len(id) - 1)) + digit(id[Len(id)])

\* row, which precedes rows in the page, placed by the comparator idB - idA:
\* a later row moves in front of it only when the comparator is positive
RECURSIVE insertById(_, _)
insertById(row, rows) ==
  IF rows = << >> THEN << row >>
  ELSE IF parseInt(rows[1].id) - parseInt(row.id) > 0 THEN << rows[1] >> \o insertById(row, Tail(rows))
  ELSE << row >> \o rows

\* Array.prototype.sort is stable: equal ids keep their page order
RECURSIVE sortByIdDescending(_)
sortByIdDescending(rows) ==
  IF rows = << >> THEN << >>
  ELSE insertById(rows[1], sortByIdDescending(Tail(rows)))

\* the result tables the site can serve: up to MaxRows kept rows, in page order
Pages == UNION {[1..n -> Filings] : n \in 0..MaxRows}

\* getLatestTransaction without the sort: the first row of the page
getFirstRowOfPage(rows) ==
  IF rows = << >> THEN Undefined ELSE rows[1]

\* transactions[0], undefined when there is none
getLatestTransaction(rows) ==
  LET transactions == sortByIdDescending(rows)
  IN  IF transactions = << >> THEN Undefined ELSE transactions[1]

(***************************************************************************)
(* State                                                                   *)
(***************************************************************************)

VARIABLES
  oldPDFUrl,              \* checkLastTransaction.js: let oldPDFUrl
  path,                   \* pdfProcessing.js: let path
  files,                  \* the PDF files on disk
  stored,                 \* the documents of the transactions collection
  timers,                 \* pending setTimeout(startFilingMonitoring) timers
  inflight,               \* started and unfinished calls of startFilingMonitoring
  alive,                  \* the process has not exited
  pc,                     \* where the cycle in flight stands
  latestTransactionData,  \* the cycle's latest filing
  data,                   \* processPDFTransactionData: let data
  detailedTransactionData,\* what processPDFTransactionData returned
  emitted,                \* the updates the cycle passed to transactionUpdate
  calls,                  \* calls of convertPDFToJSON in the cycle
  failuresFirst,          \* the extractor fails on its first failuresFirst calls
  doc,                    \* and returns doc afterwards
  dbAvailable,            \* an insertOne issued in this cycle would succeed
  oldAtStart,             \* oldPDFUrl when the cycle started
  prevTop,                \* pdfUrl of the latest filing of the cycle before (Null: none)
  prevOutcome,            \* how the cycle before ended ("silent": nothing emitted)
  alerted,                \* the pdfUrls of the alerts emitted since the process started
  page,                   \* the rows getTransactions kept, until the cycle has compared its latest filing
  clients,                \* transactionDataSSE.js: const clients (the registry)
  received,               \* the updates written to each response in this cycle
  failed,                 \* the clients whose write threw in this cycle
  channels,               \* the connections opened and since neither closed nor failing
  args,                   \* the arguments of a call of a function on its own
  result,                 \* what that call gave (Pending: not returned yet)
  attempt,                \* retryProcessPDFData: let attempt
  slept,                  \* the delays retryProcessPDFData has passed to sleep
  retryAt                 \* where the call of retryProcessPDFData stands

vars ==
  << oldPDFUrl, path, files, stored, timers, inflight, alive, pc,
     latestTransactionData, data, detailedTransactionData, emitted, calls,
     failuresFirst, doc, dbAvailable, oldAtStart, prevTop, prevOutcome, page,
     alerted,
     clients, received, failed, channels, args, result, attempt, slept,
     retryAt >>

\* bounds of the model
MaxFailures == 6
MaxInflight == 2
MaxClients == 2

\* the connections to GET /api/sse that can be open at once
Clients == 1..MaxClients

sseVars == << clients, received, failed, channels >>

retryVars == << attempt, slept, retryAt >>

callVars == << args, result, retryVars >>

\* result before the call is made
Pending == [pending |-> TRUE]

NoDoc == Record(<< >>, << >>, << >>)

\* the monitor's modules are loaded and app.listen's callback is about to run
ModulesLoaded ==
  /\ oldPDFUrl = Null
  /\ path = Null
  /\ files = {}
  /\ stored = << >>
  /\ timers = 1            \* app.listen's callback calls startFilingMonitoring once
  /\ inflight = 0
  /\ alive = TRUE
  /\ pc = "idle"
  /\ latestTransactionData = Undefined
  /\ data = NullData
  /\ detailedTransactionData = NullData
  /\ emitted = << >>
  /\ calls = 0
  /\ failuresFirst = 0
  /\ doc = NoDoc
  /\ dbAvailable = TRUE
  /\ oldAtStart = Null
  /\ prevTop = Null
  /\ prevOutcome = "silent"
  /\ page = << >>

\* ... and the alerts of the process are followed from its start
MonitorLoaded ==
  /\ ModulesLoaded
  /\ alerted = {}

\* ... and the alerts are not told apart: every pdfUrl counts as alerted, so
\* that the history of alerts adds no state where no property reads it
HistoryNotFollowed ==
  /\ ModulesLoaded
  /\ alerted = Urls

\* no client is connected
NoSubscriber ==
  /\ clients = {}
  /\ received = [c \in Clients |-> << >>]
  /\ failed = {}
  /\ channels = {}

\* retryProcessPDFData is not running
NoRetry ==
  /\ attempt = 0
  /\ slept = << >>
  /\ retryAt = "idle"

NoCall ==
  /\ args = << >>
  /\ result = Pending
  /\ NoRetry

Init ==
  /\ MonitorLoaded
  /\ NoSubscriber
  /\ NoCall

ServerInit ==
  /\ HistoryNotFollowed
  /\ NoSubscriber
  /\ NoCall


(***************************************************************************)
(* Lifecycle events (checkLastTransaction.js)                              *)
(***************************************************************************)

\* the updates, without their time stamps
FinishedChecking ==
  [status |-> "finished checking", message |-> "No new filings found."]

ProcessingError ==
  [status |-> "error",
   message |-> "Error processing filing data correctly after multiple attempts."]

Alert(pdfUrl, transaction) ==
  [status |-> "alert", message |-> "New filing data found!",
   pdfUrl |-> pdfUrl, transaction |-> transaction]

(***************************************************************************)
(* Broadcaster (routes/transactionDataSSE.js)                              *)
(***************************************************************************)

\* writeErrorEscapes with the writes outside any try
writeErrorUncaught(failing) == failing # {}

\* whether the exception of a failing write leaves sendSSEUpdate: each
\* client's writes are in a try whose catch does not rethrow
writeErrorEscapes(failing) == FALSE

\* sendSSEUpdate with no try around the writes: the first failing write ends
\* the forEach, the failing client stays registered and the clients after it
\* are not written to
sendSSEUpdateAbortsOnFailure(update, failing) ==
  /\ clients' = clients
  /\ failed' = failed \cup failing
  /\ channels' = channels \ failing
  /\ received' = [c \in Clients |->
                    IF c \in clients /\ failing = {}
                    THEN Append(received[c], update)
                    ELSE received[c]]

\* sendSSEUpdate writing the update once per line it is made of
sendSSEUpdateWritesTwice(update, failing) ==
  /\ clients' = clients \ failing
  /\ failed' = failed \cup failing
  /\ channels' = channels \ failing
  /\ received' = [c \in Clients |->
                    IF c \in clients \ failing
                    THEN Append(Append(received[c], update), update)
                    ELSE received[c]]

\* clients.forEach: the event and data lines are written to each response;
\* failing are the clients for which a write throws, and the catch deletes
\* them.  A response counts an update as received when both lines were written.
sendSSEUpdate(update, failing) ==
  /\ clients' = clients \ failing
  /\ failed' = failed \cup failing
  /\ channels' = channels \ failing
  /\ received' = [c \in Clients |->
                    IF c \in clients \ failing
                    THEN Append(received[c], update)
                    ELSE received[c]]

\* the callback startFilingMonitoring passes to the cycle is invoked with
\* update: alert and error updates are sent to the clients, others dropped
transactionUpdate(update, failing) ==
  /\ emitted' = Append(emitted, update)
  /\ IF update.status \in {"alert", "error"}
     THEN sendSSEUpdate(update, failing)
     ELSE UNCHANGED sseVars

statuses(updates) == {updates[i].status : i \in DOMAIN updates}

\* how a finished cycle ended, read from what it emitted
outcomeOf(updates) ==
  IF "alert" \in statuses(updates) THEN "alert"
  ELSE IF "error" \in statuses(updates) THEN "error"
  ELSE IF "finished checking" \in statuses(updates) THEN "finished checking"
  ELSE "silent"

(***************************************************************************)
(* Scheduler (index.js, startFilingMonitoring)                             *)
(***************************************************************************)

\* StartFilingMonitoring with a repeating timer (setInterval) in place of the
\* one-shot timer set when the cycle has ended
StartFilingMonitoringInterval ==
  /\ alive
  /\ timers > 0
  /\ inflight < MaxInflight
  /\ timers' = timers
  /\ inflight' = inflight + 1
  /\ pc' = "fetch"
  /\ latestTransactionData' = Undefined
  /\ data' = NullData
  /\ detailedTransactionData' = NullData
  /\ emitted' = << >>
  /\ calls' = 0
  /\ oldAtStart' = oldPDFUrl
  /\ prevTop' = IF latestTransactionData = Undefined THEN Null
                ELSE latestTransactionData.pdfUrl
  /\ prevOutcome' = outcomeOf(emitted)
  /\ page' = << >>
  /\ failuresFirst' = 0
  /\ doc' = NoDoc
  /\ dbAvailable' = TRUE
  /\ received' = [c \in Clients |-> << >>]
  /\ failed' = {}
  /\ UNCHANGED << oldPDFUrl, path, files, stored, alive, clients, channels, alerted, callVars >>

\* A pending call of startFilingMonitoring begins: it calls
\* checkAndUpdateLatestTransactionData, which runs up to its first await.
StartFilingMonitoring ==
  /\ alive
  /\ timers > 0
  /\ inflight < MaxInflight
  /\ timers' = timers - 1
  /\ inflight' = inflight + 1
  /\ pc' = "fetch"
  /\ latestTransactionData' = Undefined
  /\ data' = NullData
  /\ detailedTransactionData' = NullData
  /\ emitted' = << >>
  /\ calls' = 0
  /\ oldAtStart' = oldPDFUrl
  /\ prevTop' = IF latestTransactionData = Undefined THEN Null
                ELSE latestTransactionData.pdfUrl
  /\ prevOutcome' = outcomeOf(emitted)
  /\ page' = << >>
  /\ failuresFirst' = 0
  /\ doc' = NoDoc
  /\ dbAvailable' = TRUE
  /\ received' = [c \in Clients |-> << >>]
  /\ failed' = {}
  /\ UNCHANGED << oldPDFUrl, path, files, stored, alive, clients, channels, alerted, callVars >>


(***************************************************************************)
(* Monitor cycle (checkLastTransaction.js, pdfProcessing.js)               *)
(***************************************************************************)

cycleVars ==
  << oldPDFUrl, path, files, stored, latestTransactionData, data,
     detailedTransactionData, emitted, calls, failuresFirst, doc, dbAvailable >>

schedulerVars == << timers, inflight, alive >>

historyVars == << oldAtStart, prevTop, prevOutcome, page, alerted >>

\* fetchPolititianTransactions rethrows a network error or a non-OK status;
\* getTransactions awaits it outside its try, so the cycle throws.
FetchThrows ==
  /\ pc = "fetch"
  /\ pc' = "threw"
  /\ UNCHANGED << cycleVars, schedulerVars, historyVars, sseVars, callVars >>

\* NoFilingsFound with a 'finished checking' update before the return
NoFilingsFoundNotified ==
  /\ pc = "fetch"
  /\ \E rows \in Pages :
       /\ getLatestTransaction(rows) = Undefined
       /\ page' = rows
  /\ transactionUpdate(FinishedChecking, {})
  /\ pc' = "returned"
  /\ UNCHANGED << oldPDFUrl, path, files, stored, latestTransactionData, data,
                  detailedTransactionData, calls, failuresFirst, doc, dbAvailable,
                  schedulerVars, oldAtStart, prevTop, prevOutcome, alerted, callVars >>

\* getLatestTransaction yields undefined (no kept row, or unparsable HTML):
\* the cycle logs 'No filings found' and returns.
NoFilingsFound ==
  /\ pc = "fetch"
  /\ \E rows \in Pages :
       /\ getLatestTransaction(rows) = Undefined
       /\ page' = rows
  /\ pc' = "returned"
  /\ UNCHANGED << cycleVars, schedulerVars, oldAtStart, prevTop, prevOutcome, alerted, sseVars, callVars >>

\* getLatestTransaction yields the first row after sortByIdDescending.
LatestFetched ==
  /\ pc = "fetch"
  /\ \E rows \in Pages :
       /\ getLatestTransaction(rows) # Undefined
       /\ latestTransactionData' = getLatestTransaction(rows)
       /\ page' = rows
  /\ pc' = "dedup"
  /\ UNCHANGED << oldPDFUrl, path, files, stored, data, detailedTransactionData,
                  emitted, calls, failuresFirst, doc, dbAvailable,
                  schedulerVars, oldAtStart, prevTop, prevOutcome, alerted, sseVars, callVars >>

\* NoNewFilings returning without the 'finished checking' update
NoNewFilingsSilent ==
  /\ pc = "dedup"
  /\ oldPDFUrl = latestTransactionData.pdfUrl
  /\ page' = << >>
  /\ pc' = "returned"
  /\ UNCHANGED << cycleVars, schedulerVars, oldAtStart, prevTop, prevOutcome, alerted,
                  sseVars, callVars >>

\* oldPDFUrl === newPDFUrl
NoNewFilings ==
  /\ pc = "dedup"
  /\ oldPDFUrl = latestTransactionData.pdfUrl
  /\ transactionUpdate(FinishedChecking, {})
  /\ page' = << >>
  /\ pc' = "returned"
  /\ UNCHANGED << oldPDFUrl, path, files, stored, latestTransactionData, data,
                  detailedTransactionData, calls, failuresFirst, doc, dbAvailable,
                  schedulerVars, oldAtStart, prevTop, prevOutcome, alerted, callVars >>

\* A new filing: processPDFTransactionData is called and awaits downloadPDF.
\* What the extractor and the database will do in this cycle is drawn here.
NewFilingDetected ==
  /\ pc = "dedup"
  /\ oldPDFUrl # latestTransactionData.pdfUrl
  /\ failuresFirst' \in 0..MaxFailures
  /\ doc' \in Docs
  /\ dbAvailable' \in BOOLEAN
  /\ page' = << >>
  /\ pc' = "download"
  /\ UNCHANGED << oldPDFUrl, path, files, stored, latestTransactionData, data,
                  detailedTransactionData, emitted, calls,
                  schedulerVars, oldAtStart, prevTop, prevOutcome, alerted, sseVars, callVars >>

\* downloadPDF writes <id>.pdf and its path is assigned to path
DownloadPDF ==
  /\ pc = "download"
  /\ path' = latestTransactionData.pdfUrl
  /\ files' = files \cup {latestTransactionData.pdfUrl}
  /\ pc' = "convert"
  /\ UNCHANGED << oldPDFUrl, stored, latestTransactionData, data,
                  detailedTransactionData, emitted, calls, failuresFirst, doc,
                  dbAvailable, schedulerVars, historyVars, sseVars, callVars >>

\* DownloadFails without the catch: the throw of downloadPDF leaves the function
DownloadFailsThrows ==
  /\ pc = "download"
  /\ pc' = "threw"
  /\ UNCHANGED << cycleVars, schedulerVars, historyVars, sseVars, callVars >>

\* downloadPDF throws: the catch of processPDFTransactionData returns null
DownloadFails ==
  /\ pc = "download"
  /\ detailedTransactionData' = NullData
  /\ pc' = "result"
  /\ UNCHANGED << oldPDFUrl, path, files, stored, latestTransactionData, data,
                  emitted, calls, failuresFirst, doc, dbAvailable,
                  schedulerVars, historyVars, sseVars, callVars >>

\* whether the extractor's n-th call of the cycle fails
extractorFails(n) == n <= failuresFirst

\* convertPDFToJSON(path): the record, or a throw caught as null
ConvertPDFToJSON ==
  /\ pc = "convert"
  /\ calls' = calls + 1
  /\ IF extractorFails(calls + 1)
     THEN /\ detailedTransactionData' = NullData
          /\ pc' = "result"
          /\ UNCHANGED data
     ELSE /\ data' = doc
          /\ pc' = "validate"
          /\ UNCHANGED detailedTransactionData
  /\ UNCHANGED << oldPDFUrl, path, files, stored, latestTransactionData, emitted,
                  failuresFirst, doc, dbAvailable, schedulerVars, historyVars, sseVars, callVars >>

\* Validate with the result of the validation not awaited: a rejection is lost
ValidateIgnored ==
  /\ pc = "validate"
  /\ pc' = "cleanup"
  /\ UNCHANGED << cycleVars, schedulerVars, historyVars, sseVars, callVars >>

\* Validate comparing the record with its own name and office
ValidateAgainstRecord ==
  /\ pc = "validate"
  /\ IF validateGeneratedOpenAiData(data, data.Filing_Information.Name,
                                    data.Filing_Information.State_District) = Valid
     THEN /\ pc' = "cleanup"
          /\ UNCHANGED detailedTransactionData
     ELSE /\ detailedTransactionData' = NullData
          /\ pc' = "result"
  /\ UNCHANGED << oldPDFUrl, path, files, stored, latestTransactionData, data,
                  emitted, calls, failuresFirst, doc, dbAvailable,
                  schedulerVars, historyVars, sseVars, callVars >>

\* validateGeneratedOpenAiData(data, nameInWebsite, officeInWebsite): it
\* returns, or its throw is caught as null
Validate ==
  /\ pc = "validate"
  /\ IF validateGeneratedOpenAiData(data, latestTransactionData.name,
                                    latestTransactionData.office) = Valid
     THEN /\ pc' = "cleanup"
          /\ UNCHANGED detailedTransactionData
     ELSE /\ detailedTransactionData' = NullData
          /\ pc' = "result"
  /\ UNCHANGED << oldPDFUrl, path, files, stored, latestTransactionData, data,
                  emitted, calls, failuresFirst, doc, dbAvailable,
                  schedulerVars, historyVars, sseVars, callVars >>

\* cleanupPDF(path) unlinks the file, or swallows the failure; then data is returned
CleanupPDF ==
  /\ pc = "cleanup"
  /\ \E unlinked \in BOOLEAN :
       files' = IF unlinked THEN files \ {path} ELSE files
  /\ detailedTransactionData' = data
  /\ pc' = "result"
  /\ UNCHANGED << oldPDFUrl, path, stored, latestTransactionData, data, emitted,
                  calls, failuresFirst, doc, dbAvailable, schedulerVars, historyVars, sseVars, callVars >>

\* ProcessingFailed without the throw after the error update
ProcessingFailedNoThrow ==
  /\ pc = "result"
  /\ detailedTransactionData = NullData
  /\ \E failing \in SUBSET clients :
       transactionUpdate(ProcessingError, failing)
  /\ pc' = "returned"
  /\ UNCHANGED << oldPDFUrl, path, files, stored, latestTransactionData, data,
                  detailedTransactionData, calls, failuresFirst, doc, dbAvailable,
                  schedulerVars, historyVars, callVars >>

\* ProcessingFailed marking the filing as seen before the throw
ProcessingFailedAdvances ==
  /\ pc = "result"
  /\ detailedTransactionData = NullData
  /\ \E failing \in SUBSET clients :
       transactionUpdate(ProcessingError, failing)
  /\ oldPDFUrl' = latestTransactionData.pdfUrl
  /\ pc' = "threw"
  /\ UNCHANGED << path, files, stored, latestTransactionData, data,
                  detailedTransactionData, calls, failuresFirst, doc, dbAvailable,
                  schedulerVars, historyVars, callVars >>

\* detailedTransactionData === null: the error update, then the throw
ProcessingFailed ==
  /\ pc = "result"
  /\ detailedTransactionData = NullData
  /\ \E failing \in SUBSET clients :
       transactionUpdate(ProcessingError, failing)
  /\ pc' = "threw"
  /\ UNCHANGED << oldPDFUrl, path, files, stored, latestTransactionData, data,
                  detailedTransactionData, calls, failuresFirst, doc, dbAvailable,
                  schedulerVars, historyVars, callVars >>

\* FilingProcessed without the assignment to oldPDFUrl
FilingProcessedNoAdvance ==
  /\ pc = "result"
  /\ detailedTransactionData # NullData
  /\ \E failing \in SUBSET clients :
       /\ transactionUpdate(Alert(latestTransactionData.pdfUrl,
                                  detailedTransactionData), failing)
       /\ pc' = IF writeErrorEscapes(failing) THEN "threw" ELSE "returned"
  /\ alerted' = alerted \cup {latestTransactionData.pdfUrl}
  /\ UNCHANGED << oldPDFUrl, path, files, stored, latestTransactionData, data,
                  detailedTransactionData, calls, failuresFirst, doc, dbAvailable,
                  schedulerVars, oldAtStart, prevTop, prevOutcome, page, callVars >>

\* the alert update, then oldPDFUrl = newPDFUrl; a throw of the callback
\* would leave the cycle before the assignment
FilingProcessed ==
  /\ pc = "result"
  /\ detailedTransactionData # NullData
  /\ \E failing \in SUBSET clients :
       /\ transactionUpdate(Alert(latestTransactionData.pdfUrl,
                                  detailedTransactionData), failing)
       /\ IF writeErrorEscapes(failing)
          THEN /\ pc' = "threw"
               /\ UNCHANGED oldPDFUrl
          ELSE /\ oldPDFUrl' = latestTransactionData.pdfUrl
               /\ pc' = "returned"
  /\ alerted' = alerted \cup {latestTransactionData.pdfUrl}
  /\ UNCHANGED << path, files, stored, latestTransactionData, data,
                  detailedTransactionData, calls, failuresFirst, doc, dbAvailable,
                  schedulerVars, oldAtStart, prevTop, prevOutcome, page, callVars >>

\* MonitorError without the try/catch: the rejection reaches the .catch of
\* app.listen's callback, which calls process.exit(1)
MonitorErrorUncaught ==
  /\ pc = "threw"
  /\ pc' = "idle"
  /\ alive' = FALSE
  /\ inflight' = inflight - 1
  /\ UNCHANGED << cycleVars, timers, historyVars, sseVars, callVars >>

\* the catch of startFilingMonitoring logs the error
MonitorError ==
  /\ pc = "threw"
  /\ pc' = "caught"
  /\ UNCHANGED << cycleVars, schedulerVars, historyVars, sseVars, callVars >>

\* ScheduleNextCheck with the setTimeout inside the try: none after a throw
ScheduleNextCheckOnSuccess ==
  /\ pc = "returned"
  /\ timers' = timers + 1
  /\ inflight' = inflight - 1
  /\ pc' = "idle"
  /\ UNCHANGED << cycleVars, alive, historyVars, sseVars, callVars >>

\* setTimeout(startFilingMonitoring, CONFIG.checkInterval || 60000)
ScheduleNextCheck ==
  /\ pc \in {"returned", "caught"}
  /\ timers' = timers + 1
  /\ inflight' = inflight - 1
  /\ pc' = "idle"
  /\ UNCHANGED << cycleVars, alive, historyVars, sseVars, callVars >>

Next ==
  \/ StartFilingMonitoring
  \/ FetchThrows
  \/ NoFilingsFound
  \/ LatestFetched
  \/ NoNewFilings
  \/ NewFilingDetected
  \/ DownloadPDF
  \/ DownloadFails
  \/ ConvertPDFToJSON
  \/ Validate
  \/ CleanupPDF
  \/ ProcessingFailed
  \/ FilingProcessed
  \/ MonitorError
  \/ ScheduleNextCheck

Spec == Init /\ [][Next]_vars

\* NewFilingDetected for the liveness check: the cycle calls the extractor
\* once, so it matters only whether that call fails; nothing is inserted
\* into the database.
NewFilingDetectedOneCall ==
  /\ NewFilingDetected
  /\ failuresFirst' <= 1
  /\ dbAvailable'

LiveNext ==
  \/ StartFilingMonitoring
  \/ FetchThrows
  \/ NoFilingsFound
  \/ LatestFetched
  \/ NoNewFilings
  \/ NewFilingDetectedOneCall
  \/ DownloadPDF
  \/ DownloadFails
  \/ ConvertPDFToJSON
  \/ Validate
  \/ CleanupPDF
  \/ ProcessingFailed
  \/ FilingProcessed
  \/ MonitorError
  \/ ScheduleNextCheck

\* await validateGeneratedOpenAiData(...) settles one way or the other.  Among
\* the steps of LiveNext these are the steps of Validate, and it is enabled
\* exactly when Validate is.
validationSettles ==
  /\ pc = "validate"
  /\ pc' \in {"cleanup", "result"}
  /\ detailedTransactionData' \in {detailedTransactionData, NullData}
  /\ UNCHANGED << oldPDFUrl, path, files, stored, latestTransactionData, data,
                  emitted, calls, failuresFirst, doc, dbAvailable,
                  schedulerVars, historyVars, sseVars, callVars >>

\* The event loop runs a timer that is due and resumes a function whose
\* awaited promise has settled: a step that stays possible is taken.
eventLoopRuns ==
  /\ WF_vars(\/ StartFilingMonitoring
             \/ FetchThrows \/ NoFilingsFound \/ LatestFetched
             \/ NoNewFilings \/ NewFilingDetectedOneCall
             \/ DownloadPDF \/ DownloadFails
             \/ ConvertPDFToJSON
             \/ CleanupPDF
             \/ ProcessingFailed \/ FilingProcessed
             \/ MonitorError
             \/ ScheduleNextCheck)
  /\ WF_vars(validationSettles)

LiveSpec == ServerInit /\ [][LiveNext]_vars /\ eventLoopRuns


(***************************************************************************)
(* The server with subscribers (routes/transactionDataSSE.js, index.js)    *)
(***************************************************************************)

monitorVars == << cycleVars, pc, schedulerVars, historyVars >>

\* router.get("/"): the client of a new connection is added to the registry
Subscribe ==
  /\ \E c \in Clients \ clients :
       /\ clients' = clients \cup {c}
       /\ channels' = channels \cup {c}
       /\ received' = [received EXCEPT ![c] = << >>]
  /\ UNCHANGED << failed, monitorVars, callVars >>

\* Disconnect with a close handler that deletes nothing
DisconnectKeepsClient ==
  /\ \E c \in clients :
       /\ clients' = clients
       /\ channels' = channels \ {c}
  /\ UNCHANGED << received, failed, monitorVars, callVars >>

\* req.on("close"): the connection's client is deleted from the registry
Disconnect ==
  /\ \E c \in clients :
       /\ clients' = clients \ {c}
       /\ channels' = channels \ {c}
  /\ UNCHANGED << received, failed, monitorVars, callVars >>

\* NewFilingDetected in the cycles in which the extractor answers at its
\* first call and the database is up
NewFilingDetectedExtractorUp ==
  /\ NewFilingDetected
  /\ failuresFirst' = 0
  /\ dbAvailable'

ServerNext ==
  \/ Subscribe
  \/ Disconnect
  \/ StartFilingMonitoring
  \/ FetchThrows
  \/ NoFilingsFound
  \/ LatestFetched
  \/ NoNewFilings
  \/ NewFilingDetectedExtractorUp
  \/ DownloadPDF
  \/ DownloadFails
  \/ ConvertPDFToJSON
  \/ Validate
  \/ CleanupPDF
  \/ ProcessingFailed
  \/ FilingProcessed
  \/ MonitorError
  \/ ScheduleNextCheck

ServerSpec == ServerInit /\ [][ServerNext]_vars


(***************************************************************************)
(* validateGeneratedOpenAiData called on its own                           *)
(***************************************************************************)

MrsBoLi == << "M", "r", "s", ".", " ", "B", "o", " ", "L", "i" >>

\* the name and the office of a row of the site; the empty string is missing
WebsiteNames == { << >>, HonAlNg, NgAl, Al, BoLi }
WebsiteOffices == { << >>, CA05, NY01 }

\* the names and offices the extractor can write in Filing_Information
RecordNames == { HonAlNg, NgAl, Al, BoLi, MrsBoLi }
RecordOffices == { CA05, DistrictCA05, NY01 }

\* a record whose Transactions property is missing
RecordWithoutTransactions(name, office) ==
  [Filing_Information |-> [Name |-> name, Status |-> "Filed", State_District |-> office]]

Records ==
  {Record(n, o, t) : n \in RecordNames, o \in RecordOffices,
                     t \in { << >>, << Transaction >>, << Transaction, Transaction >> }}
    \cup {RecordWithoutTransactions(n, o) : n \in RecordNames, o \in RecordOffices}

ValidatorInit ==
  /\ MonitorLoaded
  /\ NoSubscriber
  /\ args \in [data : Records, nameInWebsite : WebsiteNames,
                officeInWebsite : WebsiteOffices]
  /\ result = Pending
  /\ NoRetry

\* await validateGeneratedOpenAiData(data, nameInWebsite, officeInWebsite):
\* Valid when it returns, the message of its Error when it throws
CallValidateGeneratedOpenAiData ==
  /\ result = Pending
  /\ result' = [outcome |-> validateGeneratedOpenAiData(
                               args.data, args.nameInWebsite, args.officeInWebsite)]
  /\ UNCHANGED << args, retryVars, monitorVars, sseVars >>

ValidatorNext == CallValidateGeneratedOpenAiData

ValidatorSpec == ValidatorInit /\ [][ValidatorNext]_vars


(***************************************************************************)
(* normalizeName called on its own                                         *)
(***************************************************************************)

MaxTokens == 3

Zed == << "Z", "e", "d" >>
HonDot == << "H", "o", "n", "." >>
TitleDr == << "D", "r" >>
MrDot == << "M", "r", "." >>
TitleMrs == << "M", "r", "s" >>
JrDot == << "J", "r", "." >>
III == << "I", "I", "I" >>

\* name tokens, honorifics and generational suffixes
Titles == { HonDot, TitleDr, MrDot, TitleMrs }
Tokens == { Al, Zed, JrDot, III } \cup Titles

\* the tokens of a name, in each order
permutationsOf(tokens) ==
  LET n == Len(tokens)
      orders == {f \in [1..n -> 1..n] : \A i, j \in 1..n : f[i] = f[j] => i = j}
  IN  {[i \in 1..n |-> tokens[f[i]]] : f \in orders}

NormalizeInit ==
  /\ MonitorLoaded
  /\ NoSubscriber
  /\ args \in [tokens : UNION {[1..n -> Tokens] : n \in 1..MaxTokens}]
  /\ result = Pending
  /\ NoRetry

\* normalizeName(normalizeName(x)) for the name x of the tokens
CallNormalizeNameTwice ==
  /\ result = Pending
  /\ LET x == join(args.tokens)
     IN  result' = [x |-> x,
                    once |-> normalizeName(x),
                    twice |-> normalizeName(normalizeName(x))]
  /\ UNCHANGED << args, retryVars, monitorVars, sseVars >>

\* normalizeName(x) and normalizeName(y) for y the tokens of x in another order
CallNormalizeNamePermuted ==
  /\ result = Pending
  /\ \E permuted \in permutationsOf(args.tokens) :
       LET x == join(args.tokens)
           y == join(permuted)
       IN  result' = [x |-> x, y |-> y,
                      ofX |-> normalizeName(x),
                      ofY |-> normalizeName(y)]
  /\ UNCHANGED << args, retryVars, monitorVars, sseVars >>

NormalizeNext ==
  \/ CallNormalizeNameTwice
  \/ CallNormalizeNamePermuted

NormalizeSpec == NormalizeInit /\ [][NormalizeNext]_vars


(***************************************************************************)
(* retryProcessPDFData called on its own (components/pdfProcessing.js)      *)
(***************************************************************************)

\* retryProcessPDFData(path) is entered: let attempt = 0
RetryInit ==
  /\ MonitorLoaded
  /\ NoSubscriber
  /\ args \in [path : Urls]
  /\ result = Pending
  /\ attempt = 0
  /\ slept = << >>
  /\ retryAt = "try"

\* retryDelays[attempt], the array being indexed from 0
delayOf(n) == retryDelays[n + 1]

\* return await convertPDFToJSON(path), the conversion succeeding
RetryConvertReturns ==
  /\ retryAt = "try"
  /\ attempt < Len(retryDelays)
  /\ \E d \in Docs : result' = [value |-> d]
  /\ retryAt' = "returned"
  /\ UNCHANGED << args, attempt, slept, monitorVars, sseVars >>

\* convertPDFToJSON throws: the catch block is entered
RetryConvertThrows ==
  /\ retryAt = "try"
  /\ attempt < Len(retryDelays)
  /\ retryAt' = "caught"
  /\ UNCHANGED << args, result, attempt, slept, monitorVars, sseVars >>

\* if (attempt === retryDelays.length - 1) break; then return null
RetryGivesUp ==
  /\ retryAt = "caught"
  /\ attempt = Len(retryDelays) - 1
  /\ result' = [value |-> NullData]
  /\ retryAt' = "returned"
  /\ UNCHANGED << args, attempt, slept, monitorVars, sseVars >>

\* await sleep(retryDelays[attempt]) starts
RetrySleep ==
  /\ retryAt = "caught"
  /\ attempt # Len(retryDelays) - 1
  /\ slept' = Append(slept, delayOf(attempt))
  /\ retryAt' = "sleeping"
  /\ UNCHANGED << args, result, attempt, monitorVars, sseVars >>

\* the sleep is over: attempt++ and the loop goes round
RetryWakes ==
  /\ retryAt = "sleeping"
  /\ attempt' = attempt + 1
  /\ retryAt' = "try"
  /\ UNCHANGED << args, result, slept, monitorVars, sseVars >>

RetryNext ==
  \/ RetryConvertReturns
  \/ RetryConvertThrows
  \/ RetryGivesUp
  \/ RetrySleep
  \/ RetryWakes

RetrySpec == RetryInit /\ [][RetryNext]_vars


(***************************************************************************)
(* GET /api/latest called on its own (routes/transactionDataREST.js, db.js) *)
(***************************************************************************)

MaxStored == 2

\* the contents the transactions collection can have, in insertion order
Collections == UNION {[1..n -> Docs] : n \in 0..MaxStored}

\* messages of the errors the MongoDB driver can throw
DatabaseErrors ==
  { "connect ECONNREFUSED 127.0.0.1:27017",
    "bad auth : authentication failed" }

\* a request arrives; thrown is the error the database will throw, Null for none
QueryInit ==
  /\ MonitorLoaded
  /\ NoSubscriber
  /\ args \in [collection : Collections, thrown : {Null} \cup DatabaseErrors]
  /\ result = Pending
  /\ NoRetry

\* find({}).sort({_id: -1}).limit(1).toArray(): result[0], or null
getLatestTransactionData(collection) ==
  IF Len(collection) > 0 THEN collection[Len(collection)] ELSE NullData

NotFound == [error |-> "No transaction data found"]

\* the body of the 500 response
QueryFailed(message) ==
  [error |-> "Failed to retrieve transaction data", details |-> message]

\* router.get("/latest"): the response of the handler
latest(collection, thrown) ==
  IF thrown # Null
  THEN [status |-> 500, body |-> QueryFailed(thrown)]
  ELSE IF getLatestTransactionData(collection) = NullData
       THEN [status |-> 404, body |-> NotFound]
       ELSE [status |-> 200, body |-> getLatestTransactionData(collection)]

GetLatest ==
  /\ result = Pending
  /\ result' = latest(args.collection, args.thrown)
  /\ UNCHANGED << args, retryVars, monitorVars, sseVars >>

QueryNext == GetLatest

QuerySpec == QueryInit /\ [][QueryNext]_vars


(***************************************************************************)
(* convertPDFToJSON reading the assistant's message (lib/openai.js,        *)
(* components/dataValidation.js)                                           *)
(***************************************************************************)

MaxSegments == 4

\* the backtick (written ' here: a string of the module cannot hold one)
Backtick == "'"

Fence == << Backtick, Backtick, Backtick >>
JsonFence == Fence \o << "j", "s", "o", "n" >>
PayloadText == << "{", "}" >>
FalseText == << "f", "a", "l", "s", "e" >>
The == << "T", "h", "e" >>
Given == << "G", "i", "v", "e", "n" >>

\* the pieces the message of the assistant is made of
Segments == { Fence, << "j", "s", "o", "n" >>, PayloadText, The, << " " >>, << "x" >> }

RECURSIVE concat(_)
concat(segments) ==
  IF segments = << >> THEN << >> ELSE segments[1] \o concat(Tail(segments))

\* messages.data[0].content[0].text.value
Responses ==
  { concat(segments) : segments \in UNION {[1..n -> Segments] : n \in 0..MaxSegments} }

\* String.prototype.trim
trim(s) ==
  LET kept == {i \in 1..Len(s) : ~isSpace(s[i])}
  IN  IF kept = {} THEN << >>
      ELSE SubSeq(s, CHOOSE i \in kept : \A k \in kept : i <= k,
                     CHOOSE j \in kept : \A k \in kept : k <= j)

\* s.indexOf(t, i), -1 when t does not occur from offset i on
indexOf(s, t, i) ==
  LET found == {j \in i..Len(s) : matchesAt(s, j, t)}
  IN  IF found = {} THEN -1 ELSE CHOOSE j \in found : \A k \in found : j <= k

\* the values JSON.parse gives for the texts modelled
ObjectValue == [json |-> "object"]
FalseValue == [json |-> "false"]

\* JSON.parse(text) does not throw: white space may surround the value
canParse(text) == trim(text) \in {PayloadText, FalseText}

\* JSON.parse(text) when it does not throw
parse(text) == IF trim(text) = PayloadText THEN ObjectValue ELSE FalseValue

\* what extractStringBetweenBackticks returns: a string, or false
Extracted(text) == [found |-> TRUE, text |-> text]
NotExtracted == [found |-> FALSE]

\* where the \s* of /```json\s*([\s\S]*?)```/ ends for a match starting at i
afterJsonFence(text, i) == i + Len(JsonFence) + spaceRun(text, i + Len(JsonFence))

\* text.match(/```json\s*([\s\S]*?)```/): the offsets where a match can start
jsonBlockStarts(text) ==
  { i \in 0..Len(text) :
      /\ matchesAt(text, i, JsonFence)
      /\ indexOf(text, Fence, afterJsonFence(text, i)) >= 0 }

\* jsonMatch[1].trim() of the leftmost match
jsonBlock(text) ==
  LET i == CHOOSE x \in jsonBlockStarts(text) : \A y \in jsonBlockStarts(text) : x <= y
      p == afterJsonFence(text, i)
  IN  trim(SubSeq(text, p + 1, indexOf(text, Fence, p)))

\* the while loop over /```([\s\S]*?)```/g, lastIndex being at offset i
RECURSIVE firstValidBlock(_, _)
firstValidBlock(text, i) ==
  LET open == indexOf(text, Fence, i)
      close == IF open < 0 THEN -1 ELSE indexOf(text, Fence, open + Len(Fence))
      content == trim(SubSeq(text, open + Len(Fence) + 1, close))
  IN  IF open < 0 \/ close < 0 THEN NotExtracted
      ELSE IF matchesAt(content, 0, The) \/ matchesAt(content, 0, Given)
           THEN firstValidBlock(text, close + Len(Fence))
      ELSE IF canParse(content) THEN Extracted(content)
      ELSE firstValidBlock(text, close + Len(Fence))

extractStringBetweenBackticks(text) ==
  IF jsonBlockStarts(text) # {} /\ canParse(jsonBlock(text))
  THEN Extracted(jsonBlock(text))
  ELSE firstValidBlock(text, 0)

\* typeof text, text being a name isJSON does not declare
typeofText == "undefined"

isJSON(obj) ==
  IF typeofText # "string" THEN FALSE ELSE canParse(obj)

\* String(data) as JSON.parse applies it to its argument
asString(extracted) ==
  IF extracted.found THEN extracted.text ELSE FalseText

Returned(value) == [returned |-> value]
NotJSONError ==
  [thrown |-> "Error with openAI conversion: Error: OpenAI did not return a JSON object."]

\* convertPDFToJSON from the message of the assistant on
convertPDFToJSON(message) ==
  IF ~isJSON(message)
  THEN LET extracted == extractStringBetweenBackticks(message)
       IN  IF canParse(asString(extracted))
           THEN Returned(parse(asString(extracted)))
           ELSE NotJSONError
  ELSE Returned([text |-> message])

ConvertInit ==
  /\ MonitorLoaded
  /\ NoSubscriber
  /\ args \in [data : Responses]
  /\ result = Pending
  /\ NoRetry

CallConvertPDFToJSON ==
  /\ result = Pending
  /\ result' = convertPDFToJSON(args.data)
  /\ UNCHANGED << args, retryVars, monitorVars, sseVars >>

ConvertNext == CallConvertPDFToJSON

ConvertSpec == ConvertInit /\ [][ConvertNext]_vars


(***************************************************************************)
(* Properties                                                              *)
(***************************************************************************)

\* the cycle in flight, or the last one, got a latest filing that is not the
\* one oldPDFUrl held when it started
newFilingSeen ==
  /\ latestTransactionData # Undefined
  /\ latestTransactionData.pdfUrl # oldAtStart

\* processPDFTransactionData has returned and its result has been handled
processingOver == pc \in {"threw", "caught", "returned", "idle"}

errorsEmitted == {i \in DOMAIN emitted : emitted[i].status = "error"}
alertsEmitted == {i \in DOMAIN emitted : emitted[i].status = "alert"}

\* the latest filing of this cycle is the latest filing of the cycle before
SameTopAgain ==
  /\ latestTransactionData # Undefined
  /\ prevTop = latestTransactionData.pdfUrl

\* C1 as stated: when two consecutive cycles get the same latest filing, the
\* second one never calls the extractor and ends with 'finished checking',
\* however the first one ended.
C1_SecondPollAlwaysDeduplicated ==
  SameTopAgain =>
    /\ calls = 0
    /\ pc = "idle" => emitted = << FinishedChecking >>

\* C1 amended: when two consecutive cycles get the same latest filing and the
\* first one ended with an alert or with 'finished checking', the second one
\* never calls the extractor and ends with 'finished checking'.
C1_SecondPollDeduplicatedAfterCompletedCycle ==
  (SameTopAgain /\ prevOutcome \in {"alert", "finished checking"}) =>
    /\ calls = 0
    /\ pc \notin {"download", "convert", "validate", "cleanup", "result"}
    /\ pc = "idle" => emitted = << FinishedChecking >>

C1_Witness ==
  /\ SameTopAgain
  /\ prevOutcome = "alert"
  /\ pc = "idle"
  /\ emitted = << FinishedChecking >>

RetryAttempts == Len(retryDelays)

\* the extractor was called, every call it got failed, and it would have
\* failed on each of the scheduled attempts
everyCallFails ==
  /\ calls >= 1
  /\ extractorFails(calls)
  /\ \A n \in 1..RetryAttempts : extractorFails(n)

\* C2: a cycle in which every extractor call fails makes exactly five calls
\* (one per entry of retryDelays) and emits exactly one error update.
C2_FiveCallsThenOneError ==
  (pc = "idle" /\ everyCallFails) =>
    /\ calls = RetryAttempts
    /\ Cardinality(errorsEmitted) = 1

\* C3: when the extractor fails k times (1 <= k <= 4) and then returns a
\* record the validator accepts, the cycle emits an alert carrying that
\* record and no error update.
C3_RetryIsTransparent ==
  ( /\ pc = "idle"
    /\ calls >= 1
    /\ failuresFirst \in 1..(RetryAttempts - 1)
    /\ validateGeneratedOpenAiData(doc, latestTransactionData.name,
                                   latestTransactionData.office) = Valid ) =>
    /\ \E i \in DOMAIN emitted :
         emitted[i] = Alert(latestTransactionData.pdfUrl, doc)
    /\ errorsEmitted = {}

\* C4: every alert of a cycle carries the record the cycle extracted and the
\* pdfUrl of its filing, and that record is in the collection exactly once.
C4_AlertOnlyAfterStore ==
  \A i \in alertsEmitted :
    /\ emitted[i].transaction = detailedTransactionData
    /\ emitted[i].pdfUrl = latestTransactionData.pdfUrl
    /\ Cardinality({j \in DOMAIN stored : stored[j] = emitted[i].transaction}) = 1

\* C5: a cycle that holds an accepted record while the database rejects
\* writes ends without an alert and with oldPDFUrl as it was at its start.
C5_PersistenceFailureKeepsDedupState ==
  ( /\ processingOver
    /\ newFilingSeen
    /\ detailedTransactionData # NullData
    /\ ~dbAvailable ) =>
    /\ alertsEmitted = {}
    /\ oldPDFUrl = oldAtStart

\* C6: at most one cycle is in flight, and no timer for the next cycle is
\* pending while one is.
C6_OneCycleInFlight ==
  /\ inflight \in {0, 1}
  /\ inflight = 1 => timers = 0

C6_Witness ==
  /\ inflight = 1
  /\ pc = "validate"
  /\ prevOutcome = "error"

\* C7: the process never exits, and whenever no cycle is in flight, whatever
\* the last one did, a timer for the next cycle is pending.
C7_AlwaysRescheduled ==
  /\ alive
  /\ pc = "idle" => timers >= 1
  /\ inflight = 0 => pc = "idle"

C7_Witness ==
  /\ pc = "idle"
  /\ timers = 1
  /\ errorsEmitted # {}
  /\ prevOutcome = "silent"
  /\ prevTop = Null

\* C8: when the extractor returned no record for a new filing (the download
\* or the conversion failed), the cycle emits the one error update with the
\* fixed message, throws, stores nothing and leaves oldPDFUrl as it was.
C8_ExtractionFailureFailsCycle ==
  (newFilingSeen /\ processingOver /\ data = NullData) =>
    /\ emitted = << ProcessingError >>
    /\ pc # "returned"
    /\ stored = << >>
    /\ oldPDFUrl = oldAtStart

C8_Witness ==
  /\ newFilingSeen
  /\ pc = "caught"
  /\ data = NullData
  /\ calls = 1

\* the extractor returned a record and the validator threw on it
validatorRejected ==
  /\ data # NullData
  /\ validateGeneratedOpenAiData(data, latestTransactionData.name,
                                 latestTransactionData.office) # Valid

\* C9: when the validator rejects the extracted record, the cycle ends as on
\* an extraction failure: the error update and no other, a throw, nothing
\* stored, oldPDFUrl as it was.
C9_RejectionFailsCycle ==
  (newFilingSeen /\ processingOver /\ validatorRejected) =>
    /\ emitted = << ProcessingError >>
    /\ detailedTransactionData = NullData
    /\ pc # "returned"
    /\ stored = << >>
    /\ oldPDFUrl = oldAtStart

C9_Witness ==
  /\ newFilingSeen
  /\ pc = "caught"
  /\ validatorRejected
  /\ validateGeneratedOpenAiData(data, latestTransactionData.name,
                                 latestTransactionData.office) = MismatchError

\* the cycle returned because getLatestTransaction gave no filing
zeroCandidates ==
  /\ pc = "returned"
  /\ latestTransactionData = Undefined

\* C10 as stated: a cycle with zero candidates emits 'finished checking',
\* emits no alert, calls no extraction and leaves oldPDFUrl as it was.
C10_ZeroCandidatesFinishedChecking ==
  zeroCandidates =>
    /\ \E i \in DOMAIN emitted : emitted[i].status = "finished checking"
    /\ alertsEmitted = {}
    /\ calls = 0
    /\ oldPDFUrl = oldAtStart

\* C10 amended: a cycle with zero candidates emits no update at all, calls
\* no extraction and leaves oldPDFUrl as it was.
C10_ZeroCandidatesSilent ==
  zeroCandidates =>
    /\ emitted = << >>
    /\ calls = 0
    /\ oldPDFUrl = oldAtStart

C10_Witness ==
  /\ zeroCandidates
  /\ oldAtStart # Null
  /\ prevOutcome = "alert"

\* the cycle got no latest filing and is past its fetch: the request failed,
\* or the site listed no filing
fetchGaveNothing ==
  /\ latestTransactionData = Undefined
  /\ pc \in {"threw", "caught", "returned"}

\* C11: a cycle whose request to the disclosure site fails ends like one
\* that found no filing: it returns without raising, emits neither alert nor
\* error and leaves oldPDFUrl as it was.
C11_FetchFailureIsNotRaised ==
  fetchGaveNothing =>
    /\ pc = "returned"
    /\ alertsEmitted = {}
    /\ errorsEmitted = {}
    /\ oldPDFUrl = oldAtStart

\* the call of the function under ValidatorSpec, NormalizeSpec has been made
called == result # Pending

\* the record's Transactions property is missing or an empty array
noTransactionEntries ==
  \/ "Transactions" \notin DOMAIN args.data
  \/ args.data.Transactions = << >>

\* C12: validateGeneratedOpenAiData throws for every record whose
\* Transactions is missing or empty, whatever the reference name and office
\* and whether or not they match the record's.
C12_EmptyTransactionsRejected ==
  (called /\ noTransactionEntries) =>
    result.outcome \in {NoTransactionsError, MismatchError}

C12_Witness ==
  /\ called
  /\ args.data = Record(NgAl, DistrictCA05, << >>)
  /\ args.nameInWebsite = HonAlNg
  /\ args.officeInWebsite = CA05
  /\ result.outcome = NoTransactionsError

\* both reference fields are present
referencePresent ==
  /\ args.nameInWebsite # << >>
  /\ args.officeInWebsite # << >>

\* the record's office contains the reference office, case-insensitively
officeContained ==
  includes(toLowerCase(args.data.Filing_Information.State_District),
           toLowerCase(args.officeInWebsite))

\* C13: with both reference fields present, validateGeneratedOpenAiData
\* throws for every record whose office does not contain the reference
\* office, whatever the relation between the two names.
C13_OfficeMismatchRejected ==
  (called /\ referencePresent /\ ~officeContained) => result.outcome # Valid

\* the normalized names are equal, or one is a substring of the other
namesRelated ==
  LET w == normalizeName(args.nameInWebsite)
      t == normalizeName(args.data.Filing_Information.Name)
  IN  w = t \/ includes(w, t) \/ includes(t, w)

someTransactionEntry ==
  /\ "Transactions" \in DOMAIN args.data
  /\ args.data.Transactions # << >>

\* C14: with both reference fields present, the record's office containing
\* the reference office and at least one transaction, the record is accepted
\* exactly when the normalized names are equal or one is a substring of the
\* other, and is rejected with the data-mismatch error otherwise.
C14_AcceptedIffNamesRelated ==
  (called /\ referencePresent /\ officeContained /\ someTransactionEntry) =>
    /\ result.outcome = Valid <=> namesRelated
    /\ ~namesRelated => result.outcome = MismatchError

C14_Witness ==
  /\ called
  /\ args.nameInWebsite = Al
  /\ args.officeInWebsite = CA05
  /\ args.data = Record(NgAl, DistrictCA05, << Transaction >>)
  /\ normalizeName(args.nameInWebsite) # normalizeName(NgAl)
  /\ result.outcome = Valid

\* C15: normalizeName is idempotent on names built from name tokens,
\* honorifics and generational suffixes in any position.
C15_NormalizeNameIdempotent ==
  (called /\ "twice" \in DOMAIN result) => result.twice = result.once

\* C16: normalizeName gives the same result for a name and for every
\* permutation of its whitespace-separated tokens.
C16_NormalizeNameOrderInsensitive ==
  (called /\ "ofY" \in DOMAIN result) => result.ofX = result.ofY

\* C17: when the reference name or the reference office is missing, the
\* record is accepted exactly when it has at least one transaction entry,
\* whatever its name and office, and is rejected for having none otherwise.
C17_MissingReferenceChecksTransactionsOnly ==
  (called /\ ~referencePresent) =>
    /\ result.outcome = Valid <=> someTransactionEntry
    /\ ~someTransactionEntry => result.outcome = NoTransactionsError

C17_Witness ==
  /\ called
  /\ args.nameInWebsite = BoLi
  /\ args.officeInWebsite = << >>
  /\ args.data = Record(Al, NY01, << Transaction >>)
  /\ result.outcome = Valid

\* this step is a call of sendSSEUpdate: the cycle passed an alert or an
\* error update to its callback
publishes ==
  /\ Len(emitted') = Len(emitted) + 1
  /\ emitted'[Len(emitted')].status \in {"alert", "error"}

\* the clients for which a write of this step threw
failingNow == failed' \ failed

\* C18: in a call of sendSSEUpdate during which writes fail, exactly the
\* clients whose write failed leave the registry, and every other registered
\* client is written the update and stays registered.
C18_WriteFailureRemovesOnlyTheFailing ==
  [][ (publishes /\ failingNow # {}) =>
        /\ failingNow \subseteq clients
        /\ clients' = clients \ failingNow
        /\ \A c \in clients \ failingNow :
             /\ c \in clients'
             /\ received'[c] = Append(received[c], emitted'[Len(emitted')]) ]_vars

C18_Witness ==
  /\ pc = "returned"
  /\ failed = {1}
  /\ clients = {2}
  /\ received[1] = << >>
  /\ Len(received[2]) = 1
  /\ received[2] = emitted

\* C19: a cycle whose alert met a failing write still returns, never throws,
\* and has advanced oldPDFUrl to the pdfUrl of the new filing.
C19_DeliveryFailureNotSurfaced ==
  (alertsEmitted # {} /\ failed # {}) =>
    /\ pc \in {"returned", "idle"}
    /\ oldPDFUrl = latestTransactionData.pdfUrl

C19_Witness ==
  /\ alertsEmitted # {}
  /\ failed = Clients
  /\ pc = "idle"
  /\ oldPDFUrl = latestTransactionData.pdfUrl
  /\ oldAtStart # oldPDFUrl

\* C20: whatever subscribes and disconnects came before, a call of
\* sendSSEUpdate writes the update exactly once to every client registered
\* when it starts whose writes do not fail, and no other step writes an
\* update to a response.
C20_ExactlyOnceDelivery ==
  [][ \A c \in Clients :
        IF publishes /\ c \in clients /\ c \notin failingNow
        THEN received'[c] = Append(received[c], emitted'[Len(emitted')])
        ELSE received'[c] \in {received[c], << >>} ]_vars

C20_Witness ==
  /\ emitted = << ProcessingError >>
  /\ received[1] = << ProcessingError >>
  /\ received[2] = << >>
  /\ clients = {2}
  /\ failed = {}

\* this step passes an update to the callback of the cycle
emits == Len(emitted') = Len(emitted) + 1

\* C21: every update a cycle emits, 'finished checking' included, is written
\* to every client registered at that moment whose writes do not fail.
C21_EveryUpdatePublished ==
  [][ emits =>
        \A c \in clients \ failingNow :
          received'[c] = Append(received[c], emitted'[Len(emitted')]) ]_vars

\* C22: the registry holds exactly the connections that subscribed and have
\* not since closed or had a failing write, and no update is written to a
\* connection that is not among them.
C22_RegistryIsLiveChannels ==
  /\ clients = channels
  /\ [][ /\ clients' = channels'
         /\ \A c \in Clients \ channels :
              received'[c] \in {received[c], << >>} ]_vars

C22_Witness ==
  /\ pc = "returned"
  /\ emitted # << >>
  /\ failed = {1}
  /\ received[1] = << >>
  /\ received[2] = emitted
  /\ clients = {}
  /\ channels = {}

\* the retry sequence is over and every attempt failed
allAttemptsFailed == retryAt = "returned" /\ result.value = NullData

\* C23: when every attempt of a retry sequence fails, the waits made are the
\* five entries of retryDelays, in order, the last one included.
C23_EveryDelayUsedInOrder ==
  allAttemptsFailed => slept = retryDelays

\* processPDFTransactionData is running
processing == pc \in {"download", "convert", "validate", "cleanup"}

\* this step is the return of processPDFTransactionData
processingReturns == processing /\ pc' = "result"

\* the step of the pipeline taken here fails
downloadFailed == pc = "download" /\ pc' # "convert"
extractionFailed == pc = "convert" /\ calls + 1 <= failuresFirst
validationFailed ==
  /\ pc = "validate"
  /\ validateGeneratedOpenAiData(data, latestTransactionData.name,
                                 latestTransactionData.office) # Valid
cleanupFailed == pc = "cleanup" /\ path \in files'

\* C24 as stated: processPDFTransactionData never raises, returns null for
\* every failure of download, extraction, validation or cleanup, and returns
\* a record only when all four succeeded.
C24_NullOnEveryFailure ==
  [][ processing =>
        /\ pc' # "threw"
        /\ (downloadFailed \/ extractionFailed \/ validationFailed \/ cleanupFailed)
             => (processingReturns /\ detailedTransactionData' = NullData)
        /\ (processingReturns /\ detailedTransactionData' # NullData)
             => (pc = "cleanup" /\ ~cleanupFailed) ]_vars

\* C24: processPDFTransactionData never raises; it returns null for every
\* failure of download, extraction or validation; the record it returns has
\* been downloaded, extracted and validated, whether or not the file could
\* be deleted afterwards.
C24_NullOnFailureBeforeCleanup ==
  [][ processing =>
        /\ pc' # "threw"
        /\ (downloadFailed \/ extractionFailed \/ validationFailed)
             => (processingReturns /\ detailedTransactionData' = NullData)
        /\ (processingReturns /\ detailedTransactionData' # NullData)
             => (pc = "cleanup" /\ detailedTransactionData' = data) ]_vars

\* a record returned although its file could not be deleted
C24_Witness ==
  /\ pc = "result"
  /\ detailedTransactionData # NullData
  /\ detailedTransactionData = data
  /\ path = latestTransactionData.pdfUrl
  /\ path \in files
  /\ calls = 1

\* this step is the return of getLatestTransaction to the cycle
latestReturned == pc = "fetch" /\ pc' \in {"dedup", "returned"}

\* row is one of rows and no row of rows has a greater numeric id
maximumOf(row, rows) ==
  /\ \E i \in DOMAIN rows : rows[i] = row
  /\ \A i \in DOMAIN rows : parseInt(rows[i].id) <= parseInt(row.id)

\* C25: getLatestTransaction gives the kept row with the greatest numeric
\* id, undefined when no row was kept; the filing the cycle downloads is that
\* row, and no other filing is downloaded in the cycle.
C25_LatestIsMaximumId ==
  [][ /\ latestReturned =>
           IF page' = << >>
           THEN latestTransactionData' = Undefined /\ pc' = "returned"
           ELSE maximumOf(latestTransactionData', page') /\ pc' = "dedup"
      /\ (pc \in {"dedup", "download"} /\ pc' # "fetch") =>
           latestTransactionData' = latestTransactionData
      /\ (pc = "download" /\ pc' = "convert") =>
           (path' = latestTransactionData.pdfUrl /\ calls = 0) ]_vars

\* the latest filing is the second of two rows, '10' after '9'
C25_Witness ==
  /\ pc = "dedup"
  /\ Len(page) = 2
  /\ page[1].pdfUrl = "u2"
  /\ page[2].pdfUrl = "u3"
  /\ latestTransactionData = page[2]

\* C26: the response of GET /latest to a request that met a database error
\* is the fixed error indication alone: it carries nothing of the error.
C26_FailureResponseIsFixed ==
  (called /\ args.thrown # Null) =>
    /\ result.status = 500
    /\ result.body = [error |-> "Failed to retrieve transaction data"]

\* the message is a JSON object, white space around it or not
barePayload(text) == trim(text) = PayloadText

\* the message holds a JSON object between two fences, tagged json or not
fencedPayload(text) ==
  \E i, j \in 0..Len(text) :
    /\ matchesAt(text, i, Fence)
    /\ j >= i + Len(Fence)
    /\ matchesAt(text, j, Fence)
    /\ \/ trim(SubSeq(text, i + Len(Fence) + 1, j)) = PayloadText
       \/ /\ matchesAt(text, i, JsonFence)
          /\ j >= i + Len(JsonFence)
          /\ trim(SubSeq(text, i + Len(JsonFence) + 1, j)) = PayloadText

\* C27: convertPDFToJSON returns the parsed object when the message is a
\* JSON object, bare or fenced, and throws otherwise; it never returns a
\* value that is not an object.
C27_ObjectOrThrow ==
  called =>
    IF barePayload(args.data) \/ fencedPayload(args.data)
    THEN result = [returned |-> [json |-> "object"]]
    ELSE "thrown" \in DOMAIN result

\* the structural contract of validateTransactionData: the three fields of
\* Filing_Information and the five fields of every transaction are not empty,
\* and there is at least one transaction
satisfiesContract(record) ==
  /\ record.Filing_Information.Name # << >>
  /\ record.Filing_Information.Status # ""
  /\ record.Filing_Information.State_District # << >>
  /\ "Transactions" \in DOMAIN record
  /\ Len(record.Transactions) > 0
  /\ \A i \in DOMAIN record.Transactions :
       \A field \in {"ID_Owner", "Asset", "Transaction_Type", "Date", "Amount"} :
         record.Transactions[i][field] # ""

\* C28: the record of every alert satisfies the structural contract, and a
\* cycle whose extracted record violates it ends as a processing failure.
C28_AlertRecordsSatisfyContract ==
  /\ \A i \in alertsEmitted : satisfiesContract(emitted[i].transaction)
  /\ (pc = "result" /\ data # NullData /\ ~satisfiesContract(data))
       => detailedTransactionData = NullData

\* C29: the record of every alert of a cycle has passed
\* validateGeneratedOpenAiData against the name and office of the latest
\* filing of that cycle.
C29_AlertRecordsValidated ==
  \A i \in alertsEmitted :
    validateGeneratedOpenAiData(emitted[i].transaction,
                                latestTransactionData.name,
                                latestTransactionData.office) = Valid

\* an alert whose record names the filer otherwise than the site does
C29_Witness ==
  /\ pc = "returned"
  /\ alertsEmitted # {}
  /\ latestTransactionData.name = HonAlNg
  /\ emitted[1].transaction = Record(NgAl, DistrictCA05, << Transaction >>)
  /\ emitted[1].pdfUrl = latestTransactionData.pdfUrl

\* this step passes an alert to the callback of the cycle
alertNow == emits /\ emitted'[Len(emitted')].status = "alert"

\* C30: oldPDFUrl is null until the first alert and from then on the pdfUrl
\* of the latest alert: the step that emits an alert assigns it and ends the
\* cycle, and no other step (finished checking, error, failed fetch) changes it.
C30_OldPDFUrlIsLatestAlert ==
  /\ oldPDFUrl = Null
  /\ [][ IF alertNow
         THEN oldPDFUrl' = emitted'[Len(emitted')].pdfUrl /\ pc' = "returned"
         ELSE oldPDFUrl' = oldPDFUrl ]_vars

\* a cycle that ended in an error left the pdfUrl of an earlier alert in place
C30_Witness ==
  /\ pc = "caught"
  /\ errorsEmitted # {}
  /\ oldPDFUrl = "u1"
  /\ oldAtStart = "u1"
  /\ latestTransactionData.pdfUrl = "u2"

\* the cycle has ended (by a return or by a throw) and none has started since
cycleOver == pc \in {"returned", "threw", "caught", "idle"}

\* C31: a cycle emits at most one update; a cycle that got a latest filing
\* has emitted, when it ends, exactly one update, which is an alert, an error
\* or 'finished checking'; no cycle emits both an alert and an error.
C31_OneUpdatePerCycle ==
  /\ Len(emitted) <= 1
  /\ (cycleOver /\ latestTransactionData # Undefined) =>
       /\ Len(emitted) = 1
       /\ emitted[1].status \in {"alert", "error", "finished checking"}
  /\ ~(alertsEmitted # {} /\ errorsEmitted # {})

\* a cycle that met the filing it had already alerted on
C31_Witness ==
  /\ pc = "returned"
  /\ latestTransactionData # Undefined
  /\ oldAtStart = latestTransactionData.pdfUrl
  /\ emitted = << FinishedChecking >>

\* From this step on the site and the extractor favour the filing at url:
\* a fetch succeeds with it as the latest filing, its download succeeds, and
\* the extractor returns at its first call a record the validator accepts.
favours(url) ==
  /\ pc = "fetch" =>
       (pc' = "dedup" /\ latestTransactionData'.pdfUrl = url)
  /\ (pc = "dedup" /\ pc' = "download") =>
       /\ failuresFirst' = 0
       /\ validateGeneratedOpenAiData(doc', latestTransactionData.name,
                                      latestTransactionData.office) = Valid
  /\ pc = "download" => pc' = "convert"

\* C32: if from some point on every fetch gives the same filing as the
\* latest one and its download, extraction and validation succeed, then the
\* filing is eventually alerted on (oldPDFUrl becomes its pdfUrl), whatever
\* cycles failed or were rejected before.
C32_FilingEventuallyAlerted ==
  \A url \in Urls : (<>[][favours(url)]_vars) => <>(oldPDFUrl = url)

\* an alert on the filing a cycle before had failed on
C32_Witness ==
  /\ latestTransactionData # Undefined
  /\ prevOutcome = "error"
  /\ prevTop = latestTransactionData.pdfUrl
  /\ alertsEmitted # {}
  /\ oldPDFUrl = latestTransactionData.pdfUrl
  /\ oldAtStart # oldPDFUrl

\* C33: in the lifetime of the process no pdfUrl is alerted on twice, even
\* when the latest filing changes to another one and back.
C33_OneAlertPerPdfUrl ==
  [][ alertNow => emitted'[Len(emitted')].pdfUrl \notin alerted ]_vars

\* C34: when processPDFTransactionData returns after a download, with a
\* record or with null, the file it downloaded is no longer on the disk.
C34_NoFileOutlivesCall ==
  [][ (processingReturns /\ pc # "download") => path \notin files' ]_vars

\* C35: every extraction attempt is made on the path downloaded by the call
\* in progress, and a call whose download failed holds no path of an earlier
\* call in the module variable path.
C35_PathIsOfThisCall ==
  [][ /\ pc = "convert" => path = latestTransactionData.pdfUrl
      /\ downloadFailed => path' = Null ]_vars

=============================================================================
